---- MODULE Spec2Model ----
(***************************************************************************)
(* Model of klaus.contrib.wsgi_autodetecting.AutodetectingRepoDict: a      *)
(* read-only mapping from repository names to FancyRepo handles whose      *)
(* contents are derived from the filesystem below a root directory.        *)
(*                                                                         *)
(* Strings that the code inspects character by character (repository and   *)
(* directory names, suffixes) are tuples of one-character strings.  The    *)
(* export_ok_path is an atomic path segment.  A path is the tuple of its   *)
(* segments relative to the root directory.                                *)
(***************************************************************************)
EXTENDS Integers, Sequences, FiniteSets, Bags, TLC

\* ------------------------------------------------------------------ bounds
\* Largest number of FancyRepo constructions followed in one behaviour.
MaxConstruct == 2

\* ------------------------------------------------------- module constants
curdir == <<".">>
pardir == <<".", ".">>
sep == "/"
NUL == "NUL"

_bad_names == {curdir, pardir}
\* os.altsep is None on POSIX and never equals a character of a name
_bad_chars == {NUL, sep}
_default_directory_suffixes == << <<>>, <<".", "g", "i", "t">> >>
DefaultExportOk == "git-daemon-export-ok"

\* ------------------------------------------------------ names in the model
foo == <<"f", "o", "o">>
bar == <<"b", "a", "r">>
foo_git == <<"f", "o", "o", ".", "g", "i", "t">>
bar_git == <<"b", "a", "r", ".", "g", "i", "t">>
hidden == <<".", "h">>
slashed == <<"a", "/", "b">>
nulled == <<"a", "NUL">>

\* directory entries the root directory may hold
ChildNames == {foo, foo_git, bar_git, hidden}
\* what a directory entry is: nothing, a regular file, a directory, or a
\* directory that holds a git-daemon-export-ok file
Kinds == {"absent", "file", "dir", "repo"}
\* the kinds each entry takes in the model
KindsOf(child) == IF child = foo THEN Kinds ELSE {"absent", "repo"}
\* names passed to __getitem__
LookupNames == {foo, bar, foo_git, hidden, <<>>, curdir, pardir, slashed, nulled}
\* values of the directory_suffixes parameter
SuffixConfigs == {_default_directory_suffixes,
                  << <<>>, <<"g", "i", "t">>, <<".", "g", "i", "t">> >>}
\* values of the export_ok_path parameter
ExportOkPaths == {DefaultExportOk, "."}

VARIABLES
    fs,                  \* the root directory: ChildNames -> Kinds
    detect_removals,     \* self._detect_removals
    export_ok_path,      \* self._export_ok_path
    directory_suffixes,  \* the directory_suffixes argument of __init__
    suffixes,            \* self._suffixes: the dict's keys in insertion order
    cache,               \* self._cache: name -> handle
    constructed,         \* number of FancyRepo(...) calls so far
    built,               \* per name: FancyRepo calls since the last filesystem change
    promoted,            \* suffix matched by the last successful probing lookup
    missed,              \* a valid name reported not found, with nothing but
                         \* filesystem changes since (recorded when missed.on)
    last,                \* the last operation and what it returned
    threads              \* the lookups in progress, statement by statement

vars == <<fs, detect_removals, export_ok_path, directory_suffixes, suffixes,
          cache, constructed, built, promoted, missed, last, threads>>

config == <<detect_removals, export_ok_path, directory_suffixes>>

\* ------------------------------------------------------------ pure helpers
Reverse(s) == [i \in 1..Len(s) |-> s[Len(s) + 1 - i]]

ToSet(s) == {s[i] : i \in 1..Len(s)}

\* dict.fromkeys(seq): the distinct elements in order of first occurrence
RECURSIVE fromkeys(_)
fromkeys(s) ==
    IF s = <<>> THEN <<>>
    ELSE LET init == fromkeys(SubSeq(s, 1, Len(s) - 1))
             x == s[Len(s)]
         IN IF x \in ToSet(init) THEN init ELSE Append(init, x)

\* the key is re-added at the other end of the dict
MoveToEnd_front(s, k) == <<k>> \o SelectSeq(s, LAMBDA x : x # k)

\* del d[k] without the re-insertion
MoveToEnd_dropped(s, k) == SelectSeq(s, LAMBDA x : x # k)

\* del d[k]; d[k] = None
MoveToEnd(s, k) == Append(SelectSeq(s, LAMBDA x : x # k), k)

\* the test without name.startswith(".")
IsBadName_nodot(name) ==
    \/ name = <<>>
    \/ name \in _bad_names
    \/ \E i \in 1..Len(name) : name[i] \in _bad_chars

\* the test at the head of __getitem__
IsBadName(name) ==
    \/ name = <<>>
    \/ (name # <<>> /\ name[1] = ".")
    \/ name \in _bad_names
    \/ \E i \in 1..Len(name) : name[i] \in _bad_chars

\* pathlib's "/" operator: a "." segment is dropped
PathJoin(path, segment) == IF segment = "." THEN path ELSE Append(path, segment)

Kind(f, child) == IF child \in DOMAIN f THEN f[child] ELSE "absent"

\* Path.exists() of a path below the root
Exists(f, path) ==
    IF Len(path) = 1 THEN Kind(f, path[1]) # "absent"
    ELSE /\ Len(path) = 2
         /\ path[2] = DefaultExportOk
         /\ Kind(f, path[1]) = "repo"

NoHandle == [path |-> <<>>, id |-> 0]

\* klaus.repo.FancyRepo(str(path), namespace): the id tells instances apart
FancyRepo(path, serial) == [path |-> path, id |-> serial]

\* the for loop of __getitem__ over trial[i..]; probes counts exists() calls
RECURSIVE ProbeFrom(_, _, _, _, _)
ProbeFrom(trial, i, name, f, marker) ==
    IF i > Len(trial)
    THEN [hit |-> FALSE, suffix |-> <<>>, path |-> <<>>, probes |-> Len(trial)]
    ELSE LET path == <<name \o trial[i]>>
         IN IF Exists(f, PathJoin(path, marker))
            THEN [hit |-> TRUE, suffix |-> trial[i], path |-> path, probes |-> i]
            ELSE ProbeFrom(trial, i + 1, name, f, marker)

\* the loop gives up after the first suffix
Probe_first_only(sfx, name, f, marker) ==
    ProbeFrom(SubSeq(Reverse(sfx), 1, 1), 1, name, f, marker)

Probe(sfx, name, f, marker) == ProbeFrom(Reverse(sfx), 1, name, f, marker)

\* the stale entry is left in place
cache_pop_kept(c, name) == c

\* the whole cache is dropped with the stale entry
cache_pop_all(c, name) == << >>

\* self._cache.pop(name, None)
cache_pop(c, name) == [x \in DOMAIN c \ {name} |-> c[x]]

\* the new handle is returned without being stored
cache_set_skipped(c, name, h) == c

\* self._cache[name] = repo
cache_set(c, name, h) == [x \in DOMAIN c \cup {name} |-> IF x = name THEN h ELSE c[x]]

NoBuilt == [n \in LookupNames |-> 0]

NotPromoted == [set |-> FALSE, suffix |-> <<>>]

NotMissed == [on |-> FALSE, set |-> FALSE, name |-> <<>>]

\* what becomes of the record of a miss when an operation ends
Forget(m) == [m EXCEPT !.set = FALSE, !.name = <<>>]

Missed(m, name) == IF m.on THEN [m EXCEPT !.set = TRUE, !.name = name] ELSE m

Found(m, name) == IF m.set /\ m.name = name THEN m ELSE Forget(m)

\* no lookup is in progress
NoThreads == << >>

\* the suffix order __init__ leaves in self._suffixes is that of
\* directory_suffixes itself
InitialSuffixes_unreversed(given) == fromkeys(given)

\* dict.fromkeys(reversed(list(directory_suffixes)))
InitialSuffixes(given) == fromkeys(Reverse(given))

\* the record of an operation: its kind and argument, whether it returned a
\* handle and which, the number of exists() calls it made, whether the for
\* loop matched and with which suffix, whether the name was cached before,
\* and the names or the count it produced
Obs(op, name, found, handle, probes, hit, matched, hadEntry) ==
    [op |-> op, name |-> name, found |-> found, handle |-> handle,
     probes |-> probes, hit |-> hit, matched |-> matched,
     hadEntry |-> hadEntry, yield |-> EmptyBag, size |-> 0]

Quiet(op) == Obs(op, <<>>, FALSE, NoHandle, 0, FALSE, <<>>, FALSE)

\* -------------------------------------------------------------------- Init
Init ==
    /\ fs \in [ChildNames -> Kinds]
    /\ \A child \in ChildNames : fs[child] \in KindsOf(child)
    /\ detect_removals \in BOOLEAN
    /\ export_ok_path \in ExportOkPaths
    /\ directory_suffixes \in SuffixConfigs
    /\ suffixes = InitialSuffixes(directory_suffixes)
    /\ cache = << >>
    /\ constructed = 0
    /\ built = NoBuilt
    /\ promoted = NotPromoted
    /\ missed = NotMissed
    /\ last = Quiet("init")
    /\ threads = NoThreads

\* ------------------------------------------------------------- __getitem__
KeyError(name, probes) ==
    last' = Obs("lookup", name, FALSE, NoHandle, probes, FALSE, <<>>,
                name \in DOMAIN cache)

Return(name, handle, probes, hit, matched) ==
    last' = Obs("lookup", name, TRUE, handle, probes, hit, matched,
                name \in DOMAIN cache)

\* the cache is never consulted before the filesystem
CachedFirst_never(detect, c, name) == FALSE

\* the test of self._detect_removals is inverted
CachedFirst_inverted(detect, c, name) == detect /\ name \in DOMAIN c

\* "if not self._detect_removals: try: return self._cache[name]"
CachedFirst(detect, c, name) == ~detect /\ name \in DOMAIN c

\* a handle is constructed on every successful probe
CachedAfterProbe_never(detect, c, name) == FALSE

\* "if self._detect_removals: try: return self._cache[name]"
CachedAfterProbe(detect, c, name) == detect /\ name \in DOMAIN c

getitem(name) ==
    /\ UNCHANGED <<fs, config, threads>>
    /\ IF IsBadName(name)
       THEN /\ KeyError(name, 0)
            /\ missed' = Forget(missed)
            /\ UNCHANGED <<suffixes, cache, constructed, built, promoted>>
       ELSE IF CachedFirst(detect_removals, cache, name)
       THEN /\ Return(name, cache[name], 0, FALSE, <<>>)
            /\ missed' = Found(missed, name)
            /\ UNCHANGED <<suffixes, cache, constructed, built, promoted>>
       ELSE LET p == Probe(suffixes, name, fs, export_ok_path)
            IN IF ~p.hit
               THEN /\ cache' = cache_pop(cache, name)
                    /\ KeyError(name, p.probes)
                    /\ missed' = Missed(missed, name)
                    /\ UNCHANGED <<suffixes, constructed, built, promoted>>
               ELSE /\ suffixes' = MoveToEnd(suffixes, p.suffix)
                    /\ missed' = Found(missed, name)
                    /\ promoted' = [set |-> TRUE, suffix |-> p.suffix]
                    /\ IF CachedAfterProbe(detect_removals, cache, name)
                       THEN /\ Return(name, cache[name], p.probes, TRUE, p.suffix)
                            /\ UNCHANGED <<cache, constructed, built>>
                       ELSE /\ constructed < MaxConstruct
                            /\ LET repo == FancyRepo(p.path, constructed + 1)
                               IN /\ cache' = cache_set(cache, name, repo)
                                  /\ Return(name, repo, p.probes, TRUE, p.suffix)
                            /\ constructed' = constructed + 1
                            /\ built' = [built EXCEPT ![name] = @ + 1]

Lookup == \E name \in LookupNames : getitem(name)

\* ---------------------------------------------------------------- __iter__
\* the cache is not consulted
is_valid_repo_uncached(child, c, f, detect, marker) ==
    Exists(f, PathJoin(<<child>>, marker))

is_valid_repo(child, c, f, detect, marker) ==
    IF ~detect /\ child \in DOMAIN c THEN TRUE
    ELSE Exists(f, PathJoin(<<child>>, marker))

\* insert x into a list sorted by descending length, after its equals
RECURSIVE InsertByLen(_, _)
InsertByLen(sorted, x) ==
    IF sorted = <<>> THEN <<x>>
    ELSE IF Len(Head(sorted)) >= Len(x)
         THEN <<Head(sorted)>> \o InsertByLen(Tail(sorted), x)
         ELSE <<x>> \o sorted

\* the suffixes are left in dict order
SortedByLenDesc_unsorted(s) == s

\* sorted(seq, key=len, reverse=True): stable
RECURSIVE SortedByLenDesc(_)
SortedByLenDesc(s) ==
    IF s = <<>> THEN <<>>
    ELSE InsertByLen(SortedByLenDesc(SubSeq(s, 1, Len(s) - 1)), s[Len(s)])

EndsWith(string, suffix) ==
    /\ Len(suffix) <= Len(string)
    /\ SubSeq(string, Len(string) - Len(suffix) + 1, Len(string)) = suffix

\* str.removesuffix
removesuffix(string, suffix) ==
    IF suffix # <<>> /\ EndsWith(string, suffix)
    THEN SubSeq(string, 1, Len(string) - Len(suffix))
    ELSE string

RECURSIVE removesuffixes(_, _)
removesuffixes(string, sorted) ==
    IF sorted = <<>> THEN string
    ELSE LET attempt == removesuffix(string, Head(sorted))
         IN IF attempt # string THEN attempt
            ELSE removesuffixes(string, Tail(sorted))

\* root.iterdir(): every entry of the root directory
iterdir(f) == {child \in DOMAIN f : f[child] # "absent"}

\* the names the generator of __iter__ produces, as a bag: the order is
\* that of iterdir(), which is arbitrary
RECURSIVE Generate(_, _, _, _, _, _)
Generate(children, sorted, c, f, detect, marker) ==
    IF children = {} THEN EmptyBag
    ELSE LET child == CHOOSE x \in children : TRUE
             rest == Generate(children \ {child}, sorted, c, f, detect, marker)
         IN IF is_valid_repo(child, c, f, detect, marker)
            THEN SetToBag({removesuffixes(child, sorted)}) (+) rest
            ELSE rest

iter_self ==
    Generate(iterdir(fs), SortedByLenDesc(suffixes), cache, fs,
             detect_removals, export_ok_path)

\* the entries for which is_valid_repo calls exists()
iter_probed(children, c, detect) ==
    {child \in children : ~(~detect /\ child \in DOMAIN c)}

Iterate ==
    /\ last' = [Quiet("iter") EXCEPT
                  !.yield = iter_self,
                  !.probes = Cardinality(iter_probed(iterdir(fs), cache, detect_removals))]
    /\ missed' = Forget(missed)
    /\ UNCHANGED <<fs, config, suffixes, cache, constructed, built, promoted,
                   threads>>

\* __len__: sum(1 for _ in self)
Length ==
    /\ last' = [Quiet("len") EXCEPT !.size = BagCardinality(iter_self)]
    /\ missed' = Forget(missed)
    /\ UNCHANGED <<fs, config, suffixes, cache, constructed, built, promoted,
                   threads>>

\* ------------------------------------------------- the filesystem changes
FsChanged ==
    /\ last' = Quiet("fs")
    /\ built' = NoBuilt
    /\ UNCHANGED <<config, suffixes, cache, constructed, promoted, missed, threads>>

\* an entry appears below the root
CreateEntry ==
    \E child \in ChildNames : \E kind \in KindsOf(child) \ {"absent"} :
        /\ fs[child] = "absent"
        /\ fs' = [fs EXCEPT ![child] = kind]
        /\ FsChanged

\* an entry, with everything below it, is deleted
RemoveEntry ==
    \E child \in ChildNames :
        /\ fs[child] # "absent"
        /\ fs' = [fs EXCEPT ![child] = "absent"]
        /\ FsChanged

Next == Lookup \/ Iterate \/ Length \/ CreateEntry \/ RemoveEntry

Spec == Init /\ [][Next]_vars

\* ------------------------------------- lookups under a changing filesystem
\* The lookups of the names that pass the test at the head of __getitem__,
\* with the record of the misses switched on.
ValidNames == {name \in LookupNames : ~IsBadName(name)}

InitMiss ==
    /\ fs \in [ChildNames -> Kinds]
    /\ \A child \in ChildNames : fs[child] \in KindsOf(child)
    /\ detect_removals \in BOOLEAN
    /\ export_ok_path \in ExportOkPaths
    /\ directory_suffixes \in SuffixConfigs
    /\ suffixes = InitialSuffixes(directory_suffixes)
    /\ cache = << >>
    /\ constructed = 0
    /\ built = NoBuilt
    /\ promoted = NotPromoted
    /\ missed = [NotMissed EXCEPT !.on = TRUE]
    /\ last = Quiet("init")
    /\ threads = NoThreads

LookupValid == \E name \in ValidNames : getitem(name)

NextMiss == LookupValid \/ CreateEntry \/ RemoveEntry

SpecMiss == InitMiss /\ [][NextMiss]_vars
\* --------------------------------------------- lookups running concurrently
\* Two threads each run __getitem__ once on a new instance, one statement at
\* a time, on a filesystem that does not change.  self._suffixes is here the
\* entry array of the dict: "del" leaves a dummy entry behind and an
\* insertion appends, as in CPython; the two insertions of a run fit in the
\* dict without a resize.
Threads == {1, 2}

DUMMY == <<"<dummy>">>

\* the names the two threads look up
ThreadNames == {<<foo, bar>>, <<foo, foo_git>>, <<foo, foo>>}

\* the keys of the dict, in order
Keys(entries) == SelectSeq(entries, LAMBDA x : x # DUMMY)

\* a thread about to run __getitem__(name)
Entering(name) ==
    [pc |-> "enter", name |-> name, pos |-> 0, used |-> 0, suffix |-> <<>>,
     path |-> <<>>, repo |-> NoHandle, out |-> "none", handle |-> NoHandle,
     arg |-> <<>>]

Raise(th, exception, arg) == [th EXCEPT !.pc = "done", !.out = exception, !.arg = arg]

ReturnHandle(th, handle) == [th EXCEPT !.pc = "done", !.out = "return", !.handle = handle]

ConcFrame == UNCHANGED <<fs, config, built, promoted, missed, last>>

InitConc ==
    /\ fs \in [ChildNames -> Kinds]
    /\ \A child \in ChildNames : fs[child] \in KindsOf(child)
    /\ detect_removals \in BOOLEAN
    /\ export_ok_path \in ExportOkPaths
    /\ directory_suffixes \in SuffixConfigs
    /\ suffixes = InitialSuffixes(directory_suffixes)
    /\ cache = << >>
    /\ constructed = 0
    /\ built = NoBuilt
    /\ promoted = NotPromoted
    /\ missed = NotMissed
    /\ last = Quiet("init")
    /\ \E names \in ThreadNames :
          threads = [t \in Threads |-> Entering(names[t])]

\* lines 86-99: the name test and the cache read without detect_removals
Enter(t) ==
    LET th == threads[t] IN
    /\ th.pc = "enter"
    /\ threads' = [threads EXCEPT ![t] =
          IF IsBadName(th.name) THEN Raise(th, "KeyError", th.name)
          ELSE IF CachedFirst(detect_removals, cache, th.name)
               THEN ReturnHandle(th, cache[th.name])
               ELSE [th EXCEPT !.pc = "reversed"]]
    /\ UNCHANGED <<suffixes, cache, constructed>>
    /\ ConcFrame

\* line 101: reversed(self._suffixes) starts at the last entry and notes
\* the size of the dict
MakeIterator(t) ==
    LET th == threads[t] IN
    /\ th.pc = "reversed"
    /\ threads' = [threads EXCEPT ![t] =
          [th EXCEPT !.pc = "next", !.pos = Len(suffixes),
                     !.used = Len(Keys(suffixes))]]
    /\ UNCHANGED <<suffixes, cache, constructed>>
    /\ ConcFrame

\* the entries at or below pos that hold a key
LiveAtOrBelow(entries, pos) == {i \in 1..pos : i <= Len(entries) /\ entries[i] # DUMMY}

\* line 101: next() of the reverse iterator
NextSuffix(t) ==
    LET th == threads[t]
        live == LiveAtOrBelow(suffixes, th.pos)
    IN
    /\ th.pc = "next"
    /\ threads' = [threads EXCEPT ![t] =
          IF th.used # Len(Keys(suffixes))
          THEN Raise(th, "RuntimeError", <<>>)
          ELSE IF live = {}
               THEN [th EXCEPT !.pc = "else"]
               ELSE LET i == CHOOSE j \in live : \A k \in live : k <= j
                    IN [th EXCEPT !.pc = "exists", !.suffix = suffixes[i],
                                  !.pos = i - 1]]
    /\ UNCHANGED <<suffixes, cache, constructed>>
    /\ ConcFrame

\* the test is skipped and the first suffix taken
ProbeStep_unchecked(t) ==
    LET th == threads[t] IN
    /\ th.pc = "exists"
    /\ threads' = [threads EXCEPT ![t] =
          [th EXCEPT !.path = <<th.name \o th.suffix>>, !.pc = "del"]]
    /\ UNCHANGED <<suffixes, cache, constructed>>
    /\ ConcFrame

\* lines 103-104
ProbeStep(t) ==
    LET th == threads[t]
        path == <<th.name \o th.suffix>>
    IN
    /\ th.pc = "exists"
    /\ threads' = [threads EXCEPT ![t] =
          [th EXCEPT !.path = path,
                     !.pc = IF Exists(fs, PathJoin(path, export_ok_path))
                            THEN "del" ELSE "next"]]
    /\ UNCHANGED <<suffixes, cache, constructed>>
    /\ ConcFrame

\* line 107: del self._suffixes[suffix]
DelSuffix(t) ==
    LET th == threads[t] IN
    /\ th.pc = "del"
    /\ IF th.suffix \in ToSet(Keys(suffixes))
       THEN /\ suffixes' = [i \in 1..Len(suffixes) |->
                               IF suffixes[i] = th.suffix THEN DUMMY ELSE suffixes[i]]
            /\ threads' = [threads EXCEPT ![t] = [th EXCEPT !.pc = "set"]]
       ELSE /\ threads' = [threads EXCEPT ![t] = Raise(th, "KeyError", th.suffix)]
            /\ UNCHANGED suffixes
    /\ UNCHANGED <<cache, constructed>>
    /\ ConcFrame

\* line 108: self._suffixes[suffix] = None
SetSuffix(t) ==
    LET th == threads[t] IN
    /\ th.pc = "set"
    /\ suffixes' = IF th.suffix \in ToSet(Keys(suffixes)) THEN suffixes
                   ELSE Append(suffixes, th.suffix)
    /\ threads' = [threads EXCEPT ![t] = [th EXCEPT !.pc = "after"]]
    /\ UNCHANGED <<cache, constructed>>
    /\ ConcFrame

\* lines 110-112: the else branch of the for loop
ElseBranch(t) ==
    LET th == threads[t] IN
    /\ th.pc = "else"
    /\ cache' = cache_pop(cache, th.name)
    /\ threads' = [threads EXCEPT ![t] = Raise(th, "KeyError", th.name)]
    /\ UNCHANGED <<suffixes, constructed>>
    /\ ConcFrame

\* lines 114-118: the cache read with detect_removals
AfterLoop(t) ==
    LET th == threads[t] IN
    /\ th.pc = "after"
    /\ threads' = [threads EXCEPT ![t] =
          IF CachedAfterProbe(detect_removals, cache, th.name)
          THEN ReturnHandle(th, cache[th.name])
          ELSE [th EXCEPT !.pc = "construct"]]
    /\ UNCHANGED <<suffixes, cache, constructed>>
    /\ ConcFrame

\* line 120
Construct(t) ==
    LET th == threads[t] IN
    /\ th.pc = "construct"
    /\ constructed' = constructed + 1
    /\ threads' = [threads EXCEPT ![t] =
          [th EXCEPT !.pc = "store", !.repo = FancyRepo(th.path, constructed + 1)]]
    /\ UNCHANGED <<suffixes, cache>>
    /\ ConcFrame

\* lines 121-122
Store(t) ==
    LET th == threads[t] IN
    /\ th.pc = "store"
    /\ cache' = cache_set(cache, th.name, th.repo)
    /\ threads' = [threads EXCEPT ![t] = ReturnHandle(th, th.repo)]
    /\ UNCHANGED <<suffixes, constructed>>
    /\ ConcFrame

NextConc ==
    \E t \in Threads :
        \/ Enter(t)
        \/ MakeIterator(t)
        \/ NextSuffix(t)
        \/ ProbeStep(t)
        \/ DelSuffix(t)
        \/ SetSuffix(t)
        \/ ElseBranch(t)
        \/ AfterLoop(t)
        \/ Construct(t)
        \/ Store(t)

SpecConc == InitConc /\ [][NextConc]_vars

\* ================================================================ claims
\* The claims speak of names and paths in their own terms: the definitions
\* below restate them without the operators of __getitem__ and __iter__.

dot_git == <<".", "g", "i", "t">>

ConfiguredSuffixes == ToSet(directory_suffixes)

\* a name the mapping must reject
Rejected(n) ==
    \/ Len(n) = 0
    \/ n = <<".">>
    \/ n = <<".", ".">>
    \/ (Len(n) > 0 /\ Head(n) = ".")
    \/ \E i \in DOMAIN n : n[i] = "NUL" \/ n[i] = "/"

\* root/(name+s)/export_ok_path exists
MarkerAt(name, s) == Exists(fs, PathJoin(<<name \o s>>, export_ok_path))

\* no entry root/(name+s) for any configured suffix
AllGone(name) == \A s \in ConfiguredSuffixes : Kind(fs, name \o s) = "absent"

\* --- C1: a lookup of an empty name, ".", "..", a name starting with "." or
\* a name holding a NUL or a path separator reports not found, and no such
\* name is ever a key of the cache.
C1_RejectedNames ==
    /\ (last.op = "lookup" /\ Rejected(last.name)) => ~last.found
    /\ \A n \in DOMAIN cache : ~Rejected(n)

\* a hidden directory with a marker file exists and its lookup was refused
C1_Witness ==
    /\ last.op = "lookup" /\ last.name = hidden /\ ~last.found
    /\ fs[hidden] = "repo"

\* --- C2: with detect_removals, the lookup of a valid name succeeds if and
\* only if root/(name+s)/export_ok_path exists for some configured suffix s
\* at the time of the lookup.
C2_MembershipIff ==
    (detect_removals /\ last.op = "lookup" /\ ~Rejected(last.name))
        => (last.found <=> \E s \in ConfiguredSuffixes : MarkerAt(last.name, s))

\* a lookup of a cached name succeeded on a suffix that was not tried first
C2_Witness ==
    /\ detect_removals /\ last.op = "lookup" /\ last.found
    /\ last.probes >= 2 /\ last.hadEntry

\* --- C3: with detect_removals, the lookup of a cached name all of whose
\* directories root/(name+s) are gone reports not found and leaves the
\* cache without the name.
C3_EvictOnRemoval ==
    (detect_removals /\ last.op = "lookup" /\ last.hadEntry /\ AllGone(last.name))
        => (~last.found /\ last.name \notin DOMAIN cache)

C3_Witness ==
    /\ detect_removals /\ last.op = "lookup" /\ last.hadEntry
    /\ AllGone(last.name) /\ ~last.found

\* --- C4: without detect_removals, a name that is in the cache stays in it
\* with the same handle, and its lookup returns that handle without any
\* exists() call and without touching the suffix order or the cache,
\* whatever the filesystem holds.
C4_StalePositive ==
    [][~detect_removals =>
        /\ \A n \in DOMAIN cache : n \in DOMAIN cache' /\ cache'[n] = cache[n]
        /\ (last'.op = "lookup" /\ last'.name \in DOMAIN cache) =>
              /\ last'.found
              /\ last'.handle = cache[last'.name]
              /\ last'.probes = 0
              /\ suffixes' = suffixes
              /\ cache' = cache
        /\ (last'.op = "lookup" /\ last'.found) =>
              (last'.name \in DOMAIN cache' /\ cache'[last'.name] = last'.handle)
      ]_vars

\* the cached handle was returned after the directory was deleted
C4_Witness ==
    /\ ~detect_removals /\ last.op = "lookup" /\ last.found
    /\ last.hadEntry /\ last.probes = 0
    /\ AllGone(last.name)

\* --- C5: with detect_removals, between two filesystem changes FancyRepo is
\* constructed at most once for a name, and the successful lookup of a
\* cached name returns the cached instance without constructing one.
C5_OneInstance ==
    /\ [](detect_removals => \A n \in LookupNames : built[n] <= 1)
    /\ [][(detect_removals /\ last'.op = "lookup" /\ last'.found
             /\ last'.name \in DOMAIN cache) =>
            /\ last'.handle = cache[last'.name]
            /\ constructed' = constructed
            /\ cache' = cache
         ]_vars

\* a name constructed since the last filesystem change was looked up again,
\* after the lookup of another name
C5_Witness ==
    /\ detect_removals /\ last.op = "lookup" /\ last.found /\ last.hadEntry
    /\ built[last.name] = 1
    /\ \E n \in DOMAIN cache : n # last.name /\ built[n] = 1

\* --- C6: with detect_removals, the handle a lookup returns is the one of
\* root/(name+s) for the suffix s matched in this lookup.
C6_HandleOfMatchedSuffix ==
    (detect_removals /\ last.op = "lookup" /\ last.found)
        => last.handle.path = <<last.name \o last.matched>>

\* --- C7: the suffix matched by a successful probing lookup is the last key
\* of the dict, that is the one tried first; hence the next probing lookup
\* of a name whose directory with that suffix carries the marker succeeds
\* on its first exists() call.
C7_SuffixPromotion ==
    /\ [](promoted.set => suffixes[Len(suffixes)] = promoted.suffix)
    /\ [][(last'.op = "lookup" /\ last'.probes > 0 /\ promoted.set
            /\ MarkerAt(last'.name, promoted.suffix))
           => /\ last'.found
              /\ last'.probes = 1
              /\ last'.matched = promoted.suffix
         ]_vars

\* With the default suffixes "" is tried first until ".git" is promoted.
\* Here the lookup of a name not looked up with success before found its
\* ".git" directory on the first exists() call, so ".git" had been promoted
\* by the only other successful lookup, that of the other cached name.
C7_Witness ==
    /\ directory_suffixes = _default_directory_suffixes
    /\ last.op = "lookup" /\ last.found /\ last.probes = 1
    /\ last.matched = dot_git
    /\ ~last.hadEntry /\ constructed = 2
    /\ \E n \in DOMAIN cache : n # last.name /\ cache[n].id = 1

\* --- C8: the suffixes are always those given at construction, each once;
\* the order changes only in a lookup whose for loop matched, and then the
\* matched suffix becomes the first one tried while the others keep their
\* order; lookups reporting not found, cache hits without detect_removals,
\* __iter__ and __len__ leave the order as it is.
C8_SuffixSetFixed ==
    [][/\ ToSet(suffixes') = ConfiguredSuffixes
       /\ Len(suffixes') = Cardinality(ConfiguredSuffixes)
       /\ suffixes' # suffixes =>
            /\ last'.op = "lookup" /\ last'.hit
            /\ Reverse(suffixes') =
                 <<last'.matched>> \o
                 SelectSeq(Reverse(suffixes), LAMBDA x : x # last'.matched)
       /\ (\/ last'.op \in {"iter", "len"}
           \/ (last'.op = "lookup" /\ ~last'.found)
           \/ (last'.op = "lookup" /\ ~detect_removals /\ last'.hadEntry))
            => suffixes' = suffixes
      ]_vars

\* a lookup matched a suffix and the trial order is no longer the initial one
C8_Witness ==
    /\ last.op = "lookup" /\ last.hit
    /\ suffixes # fromkeys(Reverse(directory_suffixes))
    /\ ToSet(suffixes) = ConfiguredSuffixes

\* the name of an entry without the longest configured suffix it ends with
LongestStripped(child) ==
    LET matching == {s \in ConfiguredSuffixes : s # <<>> /\ EndsWith(child, s)}
    IN IF matching = {} THEN child
       ELSE LET longest == CHOOSE s \in matching :
                               \A t \in matching : Len(t) <= Len(s)
            IN SubSeq(child, 1, Len(child) - Len(longest))

\* the entries of the root that pass is_valid_repo
ValidChildren ==
    {child \in ChildNames :
        /\ fs[child] # "absent"
        /\ is_valid_repo(child, cache, fs, detect_removals, export_ok_path)}

\* --- C9: __iter__ yields one element per entry of the root that passes the
\* validity check, the entry's name without the longest configured suffix it
\* ends with, duplicates included; __len__ is the number of these elements.
C9_Enumeration ==
    /\ last.op = "iter" =>
         /\ BagToSet(last.yield) = {LongestStripped(c) : c \in ValidChildren}
         /\ \A x \in BagToSet(last.yield) :
               CopiesIn(x, last.yield) =
                   Cardinality({c \in ValidChildren : LongestStripped(c) = x})
    /\ last.op = "len" => last.size = Cardinality(ValidChildren)

\* root/foo and root/foo.git are both repositories: "foo" is yielded twice
C9_Witness ==
    /\ last.op = "iter"
    /\ fs[foo] = "repo" /\ fs[foo_git] = "repo"
    /\ CopiesIn(foo, last.yield) = 2

\* --- C10: with export_ok_path = ".", __iter__ yields exactly the stripped
\* names of the subdirectories of the root, and nothing for an entry that is
\* not a directory.
C10_DotMeansSubdirectories ==
    (export_ok_path = "." /\ last.op = "iter")
        => BagToSet(last.yield) =
              {LongestStripped(c) : c \in {d \in ChildNames : fs[d] \in {"dir", "repo"}}}
\* --- C11: a valid name whose lookup reported not found, and for which
\* root/(name+s)/export_ok_path exists for a configured suffix s by the time
\* of its next lookup, is found by that lookup and cached, with or without
\* detect_removals.
C11_NoNegativeCaching ==
    (last.op = "lookup" /\ missed.set /\ missed.name = last.name
        /\ \E s \in ConfiguredSuffixes : MarkerAt(last.name, s))
        => /\ last.found
           /\ last.name \in DOMAIN cache
           /\ cache[last.name] = last.handle

\* the name was reported not found, the filesystem changed, and now the
\* lookup built its handle
C11_Witness ==
    /\ last.op = "lookup" /\ last.found /\ ~last.hadEntry
    /\ missed.set /\ missed.name = last.name
    /\ cache[last.name].id = constructed

\* --- C13: without detect_removals no operation removes or replaces an
\* entry of the cache.
C13_CacheOnlyGrows ==
    [][~detect_removals =>
         \A n \in DOMAIN cache : n \in DOMAIN cache' /\ cache'[n] = cache[n]
      ]_vars

\* a probe failed for another name while the cache holds a name whose
\* directories are all gone
C13_Witness ==
    /\ ~detect_removals
    /\ last.op = "lookup" /\ ~last.found /\ last.probes > 0
    /\ \E n \in DOMAIN cache : AllGone(n)

\* the entries of the root that __iter__ must yield without detect_removals
ListedWithoutDetection ==
    {child \in ChildNames :
        /\ fs[child] # "absent"
        /\ (child \in DOMAIN cache \/ MarkerAt(child, <<>>))}

\* --- C14: without detect_removals __iter__ yields the stripped name of an
\* entry of the root exactly when the entry's name is a key of the cache or
\* its marker check passes, and it calls exists() only for the entries whose
\* name is not a key of the cache.
C14_EnumerationTrustsCache ==
    (~detect_removals /\ last.op = "iter")
        => /\ BagToSet(last.yield) = {LongestStripped(c) : c \in ListedWithoutDetection}
           /\ BagCardinality(last.yield) = Cardinality(ListedWithoutDetection)
           /\ last.probes =
                 Cardinality({c \in ChildNames : fs[c] # "absent" /\ c \notin DOMAIN cache})

\* an entry without marker is yielded because its name is a key of the cache
C14_Witness ==
    /\ ~detect_removals /\ last.op = "iter"
    /\ \E c \in DOMAIN cache :
          /\ Kind(fs, c) # "absent"
          /\ ~MarkerAt(c, <<>>)
          /\ LongestStripped(c) \in BagToSet(last.yield)
          /\ last.probes < Cardinality({d \in ChildNames : fs[d] # "absent"})

\* --- C16: every name __iter__ yields is a name whose lookup, made next in
\* the same filesystem state, returns a handle.
C16_IterThenGetitem ==
    [][(last.op = "iter" /\ last'.op = "lookup"
          /\ last'.name \in BagToSet(last.yield))
         => last'.found
      ]_vars

\* --- C17: every name whose lookup returns a handle is among the names
\* __iter__ yields next in the same filesystem state.
C17_GetitemThenIter ==
    [][(last.op = "lookup" /\ last.found /\ last'.op = "iter")
         => last.name \in BagToSet(last'.yield)
      ]_vars

\* the first suffix, in the order given at construction, whose marker exists
FirstConfigured(name) ==
    LET i == CHOOSE j \in 1..Len(directory_suffixes) :
                 /\ MarkerAt(name, directory_suffixes[j])
                 /\ \A k \in 1..(j - 1) : ~MarkerAt(name, directory_suffixes[k])
    IN directory_suffixes[i]

\* --- C18: as long as no probing lookup has succeeded, a lookup resolves a
\* name with the first suffix, in the configured order, whose marker exists;
\* once a suffix has been promoted, it resolves a name whose directory with
\* that suffix carries the marker with the promoted suffix; the handle built
\* is that of root/(name+suffix).
C18_TieBreak ==
    [][(last'.op = "lookup" /\ last'.hit) =>
         /\ ~promoted.set => last'.matched = FirstConfigured(last'.name)
         /\ (promoted.set /\ MarkerAt(last'.name, promoted.suffix))
               => last'.matched = promoted.suffix
         /\ ~last'.hadEntry => last'.handle.path = <<last'.name \o last'.matched>>
      ]_vars

\* root/foo and root/foo.git both carry the marker and the first lookup of
\* the instance resolved "foo" to root/foo
C18_Witness ==
    /\ directory_suffixes = _default_directory_suffixes
    /\ fs[foo] = "repo" /\ fs[foo_git] = "repo"
    /\ last.op = "lookup" /\ last.name = foo /\ last.found
    /\ constructed = 1 /\ last.handle = [path |-> <<foo>>, id |-> 1]

\* --- C19: __iter__ and __len__ leave the cache as it is, and a lookup
\* leaves the entries of all other names as they are.
C19_Frame ==
    [][/\ last'.op \in {"iter", "len"} => cache' = cache
       /\ last'.op = "lookup" =>
            \A n \in (DOMAIN cache \cup DOMAIN cache') \ {last'.name} :
                /\ n \in DOMAIN cache /\ n \in DOMAIN cache'
                /\ cache'[n] = cache[n]
      ]_vars

\* a lookup evicted its own name and the entry of another name is still there
C19_Witness ==
    /\ last.op = "lookup" /\ last.hadEntry /\ ~last.found
    /\ last.name \notin DOMAIN cache
    /\ \E n \in DOMAIN cache : n # last.name
\* both lookups have ended
AllDone == \A t \in Threads : threads[t].pc = "done"

\* the name of thread t has a directory with a marker under a configured suffix
Resolvable(t) == \E s \in ConfiguredSuffixes : MarkerAt(threads[t].name, s)

\* --- C12: two interleaved lookups of different names leave the suffixes
\* those given at construction, and each returns what it returns when run
\* alone: a handle exactly when the name has a directory with a marker, and
\* no other failure.
C12_Independent ==
    (threads[1].name # threads[2].name /\ AllDone)
        => /\ ToSet(Keys(suffixes)) = ConfiguredSuffixes
           /\ \A t \in Threads :
                 IF Resolvable(t) THEN threads[t].out = "return"
                 ELSE threads[t].out = "KeyError" /\ threads[t].arg = threads[t].name

Constructed == {threads[t].repo : t \in {u \in Threads : threads[u].repo # NoHandle}}

====
